---------------------------- MODULE Spec2Model ----------------------------
(***************************************************************************)
(* Model of the anonymous complaint platform of src/app.py: the keyword    *)
(* classifier, the complaints table with its status workflow, the          *)
(* listing query and the dashboard statistics.                             *)
(*                                                                         *)
(* Text is a sequence of one-character strings.  Scores are kept in tenths *)
(* (a keyword hit of 2 is 20, a fuzzy hit of 0.2 is 2, the harassment      *)
(* bonus of 5 is 50) and the confidence in thousandths, so that the        *)
(* arithmetic stays in the integers.  A NULL column is the integer -1;     *)
(* every timestamp of the clock is >= 0.                                   *)
(***************************************************************************)
EXTENDS Integers, Sequences, FiniteSets, TLC

(***************************************************************************)
(* Bounds of the model.                                                    *)
(***************************************************************************)
MaxRows == 2
MaxTime == 1
MaxUpdates == 2
NumWorkers == 2

(***************************************************************************)
(* Configuration (src/app.py, lines 26-47 and 90-98).                      *)
(***************************************************************************)
ALL_CATEGORIES ==
    <<"Infrastructure", "Academic", "Harassment", "Facilities", "IT/Network", "Other">>

CATEGORY_HEAD_EMAIL ==
    [c \in {"Infrastructure", "Academic", "Harassment", "Facilities", "IT/Network", "Other"} |->
        CASE c = "Infrastructure" -> "infra-head@sece.ac.in"
          [] c = "Academic"       -> "academic-head@sece.ac.in"
          [] c = "Harassment"     -> "safety-head@sece.ac.in"
          [] c = "Facilities"     -> "facilities-head@sece.ac.in"
          [] c = "IT/Network"     -> "it-head@sece.ac.in"
          [] OTHER                -> "principal@sece.ac.in"]

KeysInfrastructure ==
    << <<"r", "o", "o", "f">>,
       <<"l", "e", "a", "k">>,
       <<"e", "l", "e", "c", "t", "r", "i", "c">>,
       <<"p", "o", "w", "e", "r">>,
       <<"b", "r", "o", "k", "e", "n">>,
       <<"d", "o", "o", "r">>,
       <<"w", "i", "n", "d", "o", "w">>,
       <<"s", "t", "a", "i", "r", "s">>,
       <<"l", "i", "f", "t">>,
       <<"e", "l", "e", "v", "a", "t", "o", "r">>,
       <<"f", "l", "o", "o", "r">>,
       <<"c", "e", "i", "l", "i", "n", "g">>,
       <<"l", "i", "g", "h", "t">>,
       <<"w", "a", "t", "e", "r">>,
       <<"p", "l", "u", "m", "b", "i", "n", "g">>,
       <<"p", "i", "p", "e">>,
       <<"r", "o", "a", "d">>,
       <<"f", "e", "n", "c", "e">> >>

KeysAcademic ==
    << <<"e", "x", "a", "m">>,
       <<"g", "r", "a", "d", "e">>,
       <<"m", "a", "r", "k", "s">>,
       <<"p", "r", "o", "f", "e", "s", "s", "o", "r">>,
       <<"t", "e", "a", "c", "h", "e", "r">>,
       <<"s", "y", "l", "l", "a", "b", "u", "s">>,
       <<"c", "o", "u", "r", "s", "e">>,
       <<"t", "i", "m", "e", "t", "a", "b", "l", "e">>,
       <<"a", "s", "s", "i", "g", "n", "m", "e", "n", "t">>,
       <<"l", "e", "c", "t", "u", "r", "e">>,
       <<"f", "a", "c", "u", "l", "t", "y">>,
       <<"a", "t", "t", "e", "n", "d", "a", "n", "c", "e">>,
       <<"q", "u", "e", "s", "t", "i", "o", "n", " ", "p", "a", "p", "e", "r">>,
       <<"c", "h", "e", "a", "t", "i", "n", "g">> >>

KeysHarassment ==
    << <<"h", "a", "r", "a", "s", "s">>,
       <<"h", "a", "r", "a", "s", "s", "m", "e", "n", "t">>,
       <<"b", "u", "l", "l", "y">>,
       <<"b", "u", "l", "l", "y", "i", "n", "g">>,
       <<"m", "o", "l", "e", "s", "t">>,
       <<"a", "b", "u", "s", "e">>,
       <<"t", "h", "r", "e", "a", "t">>,
       <<"u", "n", "s", "a", "f", "e">>,
       <<"d", "i", "s", "c", "r", "i", "m", "i", "n", "a", "t", "i", "o", "n">>,
       <<"s", "e", "x", "u", "a", "l">>,
       <<"a", "s", "s", "a", "u", "l", "t">>,
       <<"m", "i", "s", "c", "o", "n", "d", "u", "c", "t">>,
       <<"c", "r", "e", "e", "p", "y">> >>

KeysFacilities ==
    << <<"c", "a", "n", "t", "e", "e", "n">>,
       <<"f", "o", "o", "d">>,
       <<"w", "a", "s", "h", "r", "o", "o", "m">>,
       <<"t", "o", "i", "l", "e", "t">>,
       <<"c", "l", "e", "a", "n">>,
       <<"h", "y", "g", "i", "e", "n", "e">>,
       <<"l", "a", "b">>,
       <<"e", "q", "u", "i", "p", "m", "e", "n", "t">>,
       <<"b", "e", "n", "c", "h">>,
       <<"f", "a", "n">>,
       <<"a", "c">>,
       <<"w", "a", "t", "e", "r", " ", "c", "o", "o", "l", "e", "r">>,
       <<"p", "a", "r", "k", "i", "n", "g">>,
       <<"b", "u", "s">> >>

KeysITNetwork ==
    << <<"n", "e", "t", "w", "o", "r", "k">>,
       <<"w", "i", "f", "i">>,
       <<"i", "n", "t", "e", "r", "n", "e", "t">>,
       <<"s", "e", "r", "v", "e", "r">>,
       <<"e", "m", "a", "i", "l">>,
       <<"l", "o", "g", "i", "n">>,
       <<"w", "e", "b", "s", "i", "t", "e">>,
       <<"p", "o", "r", "t", "a", "l">>,
       <<"d", "a", "t", "a", "b", "a", "s", "e">>,
       <<"p", "r", "i", "n", "t", "e", "r">>,
       <<"c", "o", "m", "p", "u", "t", "e", "r">>,
       <<"d", "e", "s", "k", "t", "o", "p">>,
       <<"l", "a", "p", "t", "o", "p">>,
       <<"s", "l", "o", "w">> >>

CATEGORY_KEYWORDS ==
    [c \in {"Infrastructure", "Academic", "Harassment", "Facilities", "IT/Network"} |->
        CASE c = "Infrastructure" -> KeysInfrastructure
          [] c = "Academic"       -> KeysAcademic
          [] c = "Harassment"     -> KeysHarassment
          [] c = "Facilities"     -> KeysFacilities
          [] OTHER                -> KeysITNetwork]

HarassmentTokens ==
    << <<"h", "a", "r", "a", "s", "s">>,
       <<"b", "u", "l", "l", "y">>,
       <<"s", "e", "x", "u", "a", "l">>,
       <<"a", "s", "s", "a", "u", "l", "t">>,
       <<"t", "h", "r", "e", "a", "t">> >>

(***************************************************************************)
(* String primitives used by the classifier and the request parsing.      *)
(***************************************************************************)
LowerMap ==
    ("A" :> "a") @@ ("B" :> "b") @@ ("C" :> "c") @@ ("D" :> "d") @@ ("E" :> "e") @@ ("F" :> "f") @@
    ("G" :> "g") @@ ("H" :> "h") @@ ("I" :> "i") @@ ("J" :> "j") @@ ("K" :> "k") @@ ("L" :> "l") @@
    ("M" :> "m") @@ ("N" :> "n") @@ ("O" :> "o") @@ ("P" :> "p") @@ ("Q" :> "q") @@ ("R" :> "r") @@
    ("S" :> "s") @@ ("T" :> "t") @@ ("U" :> "u") @@ ("V" :> "v") @@ ("W" :> "w") @@ ("X" :> "x") @@
    ("Y" :> "y") @@ ("Z" :> "z")

LowerLetters ==
    {"a", "b", "c", "d", "e", "f", "g", "h", "i", "j", "k", "l", "m", "n", "o", "p", "q", "r", "s", "t", "u", "v", "w", "x", "y", "z"}

Digits ==
    {"0", "1", "2", "3", "4", "5", "6", "7", "8", "9"}

Whitespace ==
    {" ", "\t", "\n"}

\* str.lower(): upper-case letters are mapped, everything else is kept.
Lower(s) ==
    [i \in 1..Len(s) |-> IF s[i] \in DOMAIN LowerMap THEN LowerMap[s[i]] ELSE s[i]]

\* \w of the re module on the model's alphabet.
IsWordChar(c) ==
    c \in LowerLetters \cup (DOMAIN LowerMap) \cup Digits \cup {"_"}

\* k in s: k occurs as a contiguous substring of s.
Contains(s, k) ==
    \E i \in 1..(Len(s) - Len(k) + 1) : SubSeq(s, i, i + Len(k) - 1) = k

\* k.startswith(p)
StartsWith(k, p) ==
    /\ Len(p) <= Len(k)
    /\ SubSeq(k, 1, Len(p)) = p

\* w[:n]
Prefix(w, n) ==
    SubSeq(w, 1, IF Len(w) < n THEN Len(w) ELSE n)

Abs(x) ==
    IF x < 0 THEN -x ELSE x

RECURSIVE LStrip(_)
LStrip(s) ==
    IF s # <<>> /\ Head(s) \in Whitespace THEN LStrip(Tail(s)) ELSE s

RECURSIVE RStrip(_)
RStrip(s) ==
    IF s # <<>> /\ s[Len(s)] \in Whitespace THEN RStrip(SubSeq(s, 1, Len(s) - 1)) ELSE s

\* str.strip()
Strip(s) ==
    RStrip(LStrip(s))

\* re.findall(r"\w+", s): the maximal runs of word characters, left to right.
RECURSIVE FindWords(_, _, _)
FindWords(s, cur, acc) ==
    IF s = <<>>
    THEN IF cur = <<>> THEN acc ELSE Append(acc, cur)
    ELSE IF IsWordChar(Head(s))
         THEN FindWords(Tail(s), Append(cur, Head(s)), acc)
         ELSE FindWords(Tail(s), <<>>, IF cur = <<>> THEN acc ELSE Append(acc, cur))

(***************************************************************************)
(* classify_complaint                                                      *)
(***************************************************************************)
HitWeight == 20
FuzzyWeight == 2
HarassmentBonus == 50
ConfidenceDenominator == 60

\* number of keys k with "k in s"
SubstringHits(s, keys) ==
    Cardinality({i \in 1..Len(keys) : Contains(s, keys[i])})

\* number of pairs (w, k) with abs(len(w) - len(k)) <= 2 and k.startswith(w[:3])
FuzzyHits(words, keys) ==
    Cardinality({p \in (1..Len(words)) \X (1..Len(keys)) :
                    /\ Abs(Len(words[p[1]]) - Len(keys[p[2]])) <= 2
                    /\ StartsWith(keys[p[2]], Prefix(words[p[1]], 3))})

HasHarassmentToken(s) ==
    \E i \in 1..Len(HarassmentTokens) : Contains(s, HarassmentTokens[i])

\* scores[cat] after the keyword loops and the harassment heuristic
Score(text, cat) ==
    LET s == Lower(text)
        words == FindWords(s, <<>>, <<>>)
        base == IF cat \in DOMAIN CATEGORY_KEYWORDS
                THEN HitWeight * SubstringHits(s, CATEGORY_KEYWORDS[cat])
                     + FuzzyWeight * FuzzyHits(words, CATEGORY_KEYWORDS[cat])
                ELSE 0
    IN  IF cat = "Harassment" /\ HasHarassmentToken(s)
        THEN base + HarassmentBonus
        ELSE base

\* the loop "for cat, sc in scores.items(): if sc > best_score"
RECURSIVE BestFrom(_, _, _, _)
BestFrom(text, i, best_cat, best_score) ==
    IF i > Len(ALL_CATEGORIES)
    THEN <<best_cat, best_score>>
    ELSE LET sc == Score(text, ALL_CATEGORIES[i])
         IN  IF sc > best_score
             THEN BestFrom(text, i + 1, ALL_CATEGORIES[i], sc)
             ELSE BestFrom(text, i + 1, best_cat, best_score)

\* round(min(1.0, best_score / 6.0), 3), in thousandths
Confidence(best_score) ==
    LET milli == (2 * 1000 * best_score + ConfidenceDenominator) \div (2 * ConfidenceDenominator)
    IN  IF best_score >= ConfidenceDenominator THEN 1000 ELSE milli

classify_complaint(text) ==
    LET best == BestFrom(text, 1, "Other", 0)
    IN  <<best[1], Confidence(best[2])>>

(***************************************************************************)
(* Inputs of the requests.                                                 *)
(***************************************************************************)
Bodies ==
    { <<" ">>,
      <<"r", "o", "o", "f">>,
      <<"E", "x", "a", "m", " ">> }

Titles ==
    { <<>> }

StatusInputs ==
    {"New", "In Progress", "Resolved", "Bogus"}

\* the id field of the update form: 0 is the default of a missing field
FormIds ==
    0..MaxRows

NULL == -1

(***************************************************************************)
(* State.                                                                  *)
(*   complaints       the rows of table complaints, keyed by id            *)
(*   sqlite_sequence  the largest id AUTOINCREMENT has handed out          *)
(*   now              the clock read by now_ts()                           *)
(*   ENABLE_SMTP      the SMTP switch of the configuration                 *)
(*   requests         the requests being served, in order of arrival; each *)
(*                    holds the locals of its handler and the place (pc)   *)
(*                    it has reached                                       *)
(*   response         the finished request whose response is on the wire   *)
(* and, to state the properties,                                           *)
(*   was_resolved     the ids whose row has been seen with status Resolved *)
(*   resolved_log     per id, the clock readings of the Resolved updates   *)
(*                    that reached the row, oldest first                   *)
(*   updates          the number of status updates accepted so far         *)
(*   requests[i].before   in a status update, the resolved_at its row held *)
(*                    when the request began (<<>> if there was no row)    *)
(* and, for the functions called on their own,                             *)
(*   call             the call of classify_complaint or of pretty being    *)
(*                    made: its argument and, once returned, its result    *)
(***************************************************************************)
VARIABLES complaints, sqlite_sequence, now, ENABLE_SMTP, requests, response,
          was_resolved, resolved_log, updates, call

vars == <<complaints, sqlite_sequence, now, ENABLE_SMTP, requests, response,
          was_resolved, resolved_log, updates, call>>

\* no function is being called directly
NoCall ==
    [fn |-> "", pc |-> "idle", text |-> <<>>, category |-> "", confidence |-> 0,
     sec |-> 0, readable |-> ""]

NoResponse ==
    [code |-> 0, ok |-> FALSE, error |-> "", id |-> 0, category |-> "", confidence |-> 0,
     complaints |-> <<>>, status_counts |-> <<>>, category_counts |-> <<>>, speed_stats |-> <<>>]

NoRequest ==
    [route |-> "", pc |-> "idle", title |-> <<>>, body |-> <<>>, category |-> "",
     confidence |-> 0, ts |-> 0, cid |-> 0, new_status |-> "", complaint_id |-> 0,
     sent |-> FALSE, status_counts |-> <<>>, cat_counts |-> <<>>, resp |-> NoResponse,
     before |-> <<>>]

Request(route) ==
    [NoRequest EXCEPT !.route = route, !.pc = "start"]

(***************************************************************************)
(* list_complaints and my_complaints                                       *)
(***************************************************************************)
\* the sequences that hold every element of S exactly once
Orderings(S) ==
    {q \in [1..Cardinality(S) -> S] : \A i, j \in DOMAIN q : i # j => q[i] # q[j]}

\* SELECT * FROM complaints ORDER BY timestamp DESC: every row once, no row
\* before a row with a larger timestamp; rows with equal timestamps come in
\* whatever order the engine produces
SelectOrderByTimestampDesc ==
    {q \in Orderings(DOMAIN complaints) :
        \A i, j \in DOMAIN q :
            i < j => complaints[q[i]].timestamp >= complaints[q[j]].timestamp}

\* r[k] if r[k] is not None else ""
NoneToEmpty(v) ==
    IF v = NULL THEN "" ELSE v

JsonRow(id) ==
    [id |-> id,
     category |-> complaints[id].category,
     title |-> complaints[id].title,
     body |-> complaints[id].body,
     status |-> complaints[id].status,
     timestamp |-> complaints[id].timestamp,
     updated_at |-> complaints[id].updated_at,
     resolved_at |-> NoneToEmpty(complaints[id].resolved_at),
     predicted_confidence |-> complaints[id].predicted_confidence,
     anonymous_sent |-> complaints[id].anonymous_sent]


(***************************************************************************)
(* dashboard_stats and my_dashboard                                        *)
(***************************************************************************)
Categories ==
    {ALL_CATEGORIES[i] : i \in DOMAIN ALL_CATEGORIES}

\* a status query that reports every status, the absent ones with 0
StatusCounts_ZeroFilled ==
    [s \in {"New", "In Progress", "Resolved"} |->
        Cardinality({id \in DOMAIN complaints : complaints[id].status = s})]

\* SELECT status, COUNT(*) FROM complaints GROUP BY status, as a dict
StatusCounts ==
    [s \in {complaints[id].status : id \in DOMAIN complaints} |->
        Cardinality({id \in DOMAIN complaints : complaints[id].status = s})]

\* SELECT category, COUNT(*) FROM complaints GROUP BY category, as a dict
CategoryCounts ==
    [c \in {complaints[id].category : id \in DOMAIN complaints} |->
        Cardinality({id \in DOMAIN complaints : complaints[id].category = c})]

\* a speed query that takes every row with a resolved_at
ResolvedRows_EverResolved(c) ==
    {id \in DOMAIN complaints :
        complaints[id].category = c /\ complaints[id].resolved_at # NULL}

\* the rows of a category that pass WHERE status='Resolved'
ResolvedRows(c) ==
    {id \in DOMAIN complaints :
        complaints[id].category = c /\ complaints[id].status = "Resolved"}

ResolvedCategories ==
    {c \in Categories : ResolvedRows(c) # {}}

RECURSIVE SumDurations(_)
SumDurations(ids) ==
    IF ids = {}
    THEN 0
    ELSE LET id == CHOOSE x \in ids : TRUE
         IN  (complaints[id].resolved_at - complaints[id].timestamp)
             + SumDurations(ids \ {id})

\* int(x) of a quotient: truncation towards zero
TruncDiv(a, b) ==
    IF a >= 0 THEN a \div b ELSE -((-a) \div b)

\* int(AVG(resolved_at - timestamp) or 0); AVG skips the NULL differences
AvgSeconds(c) ==
    LET timed == {id \in ResolvedRows(c) : complaints[id].resolved_at # NULL}
    IN  IF timed = {} THEN 0 ELSE TruncDiv(SumDurations(timed), Cardinality(timed))

\* a pretty whose minutes are rounded to the nearest
pretty_Rounded(sec) ==
    IF sec <= 0
    THEN "-"
    ELSE LET days == sec \div 86400
             hours == (sec % 86400) \div 3600
             mins == ((sec % 3600) + 30) \div 60
         IN  IF days > 0
             THEN ToString(days) \o "d " \o ToString(hours) \o "h"
             ELSE IF hours > 0
             THEN ToString(hours) \o "h " \o ToString(mins) \o "m"
             ELSE ToString(mins) \o "m"

\* pretty(sec)
pretty(sec) ==
    IF sec <= 0
    THEN "-"
    ELSE LET days == sec \div 86400
             hours == (sec % 86400) \div 3600
             mins == (sec % 3600) \div 60
         IN  IF days > 0
             THEN ToString(days) \o "d " \o ToString(hours) \o "h"
             ELSE IF hours > 0
             THEN ToString(hours) \o "h " \o ToString(mins) \o "m"
             ELSE ToString(mins) \o "m"

SpeedEntry(c) ==
    [category |-> c, avg_seconds |-> AvgSeconds(c),
     resolved_count |-> Cardinality(ResolvedRows(c))]

NoRankSentinel == 1000000000

\* key=lambda x: x["avg_seconds"] if x["avg_seconds"]>0 else 10**9
SortKey(x) ==
    IF x.avg_seconds > 0 THEN x.avg_seconds ELSE NoRankSentinel

\* insert x behind every element whose key is not larger
InsertByKey(sorted, x) ==
    LET n == Cardinality({i \in DOMAIN sorted : SortKey(sorted[i]) <= SortKey(x)})
    IN  SubSeq(sorted, 1, n) \o <<x>> \o SubSeq(sorted, n + 1, Len(sorted))

\* sorted(speed_stats, key=...): stable, ascending by key
RECURSIVE Sorted(_)
Sorted(seq) ==
    IF seq = <<>>
    THEN <<>>
    ELSE InsertByKey(Sorted(SubSeq(seq, 1, Len(seq) - 1)), seq[Len(seq)])

\* the loop over speed_rows, the sort and the avg_readable pass, for the
\* grouped rows coming back in order q
SpeedStats(q) ==
    LET ranked == Sorted([i \in DOMAIN q |-> SpeedEntry(q[i])])
    IN  [i \in DOMAIN ranked |->
            [category |-> ranked[i].category,
             avg_seconds |-> ranked[i].avg_seconds,
             resolved_count |-> ranked[i].resolved_count,
             avg_readable |-> pretty(ranked[i].avg_seconds)]]



(***************************************************************************)
(* The request threads.  A handler runs in steps: one step up to and       *)
(* including each access to the clock or the database.  The response of a  *)
(* finished handler is on the wire until Deliver, and nothing else happens *)
(* meanwhile: delivery touches nothing the handlers read.                  *)
(***************************************************************************)
\* no response is waiting to be delivered
Quiet ==
    response.pc = "idle"

\* a thread of a pool of `threads` is free to take a request
Free(threads) ==
    /\ Quiet
    /\ Len(requests) < threads

\* request i is at place pc
At(i, pc) ==
    /\ Quiet
    /\ i \in DOMAIN requests
    /\ requests[i].pc = pc

Remove(seq, i) ==
    SubSeq(seq, 1, i - 1) \o SubSeq(seq, i + 1, Len(seq))

\* a request arrives and runs its first step: it is done, or goes on
Begin(req) ==
    IF req.pc = "done"
    THEN /\ response' = req
         /\ UNCHANGED requests
    ELSE /\ requests' = Append(requests, req)
         /\ UNCHANGED response

\* request i runs its next step
Advance(i, req) ==
    IF req.pc = "done"
    THEN /\ response' = req
         /\ requests' = Remove(requests, i)
    ELSE /\ requests' = [requests EXCEPT ![i] = req]
         /\ UNCHANGED response

\* return jsonify(...)
Return(me, r) ==
    [me EXCEPT !.pc = "done", !.resp = r]

ErrorResponse(code, msg) ==
    [NoResponse EXCEPT !.code = code, !.error = msg]

OkResponse ==
    [NoResponse EXCEPT !.code = 200, !.ok = TRUE]

\* the history variables follow the table
History ==
    /\ was_resolved' = was_resolved \cup
          {id \in DOMAIN complaints' : complaints'[id].status = "Resolved"}

\* the state after the "Run" block: get_db() has created the empty table
Init ==
    /\ complaints = <<>>
    /\ sqlite_sequence = 0
    /\ now = 0
    /\ ENABLE_SMTP \in BOOLEAN
    /\ requests = <<>>
    /\ response = NoRequest
    /\ was_resolved = {}
    /\ resolved_log = <<>>
    /\ updates = 0
    /\ call = NoCall

\* time.time() advances
Tick ==
    /\ Quiet
    /\ now < MaxTime
    /\ now' = now + 1
    /\ UNCHANGED <<complaints, sqlite_sequence, ENABLE_SMTP, call, requests, response,
                   was_resolved, resolved_log, updates>>

\* the client has the response
Deliver ==
    /\ ~Quiet
    /\ response' = NoRequest
    /\ UNCHANGED <<complaints, sqlite_sequence, now, ENABLE_SMTP, call, requests,
                   was_resolved, resolved_log, updates>>

now_ts == now

(***************************************************************************)
(* create_complaint                                                        *)
(***************************************************************************)
InFlightInserts ==
    Cardinality({i \in DOMAIN requests : requests[i].pc = "insert"})

\* lines 227-235: the session check, the empty-body check, the classifier
\* and the read of the clock
CreateRequest(threads, logged_in, form_title, form_body) ==
    /\ Free(threads)
    /\ logged_in
    /\ LET title == Strip(form_title)
           body == Strip(form_body)
           cls == classify_complaint(body \o <<" ">> \o title)
           me == Request("create")
       IN  IF body = <<>>
           THEN Begin(Return(me, ErrorResponse(400, "Complaint cannot be empty")))
           ELSE /\ sqlite_sequence + InFlightInserts < MaxRows
                /\ Begin([me EXCEPT !.pc = "insert", !.title = title, !.body = body,
                                    !.category = cls[1], !.confidence = cls[2],
                                    !.ts = now_ts])
    /\ UNCHANGED <<complaints, sqlite_sequence, now, ENABLE_SMTP, call,
                   was_resolved, resolved_log, updates>>

\* an id taken from the number of rows
NextRowId_RowCount ==
    IF complaints = <<>> THEN 1 ELSE Cardinality(DOMAIN complaints)

\* AUTOINCREMENT: one more than the largest id ever used in the table
NextRowId ==
    sqlite_sequence + 1

\* an INSERT into a table whose anonymous_sent has no default
NewRow_NoDefault(category, title, body, ts, confidence) ==
    [category |-> category, title |-> title, body |-> body, status |-> "New",
     timestamp |-> ts, updated_at |-> ts, resolved_at |-> NULL,
     predicted_confidence |-> confidence, anonymous_sent |-> NULL]

\* the row of the INSERT: resolved_at is not listed and anonymous_sent has
\* DEFAULT 0
NewRow(category, title, body, ts, confidence) ==
    [category |-> category, title |-> title, body |-> body, status |-> "New",
     timestamp |-> ts, updated_at |-> ts, resolved_at |-> NULL,
     predicted_confidence |-> confidence, anonymous_sent |-> 0]

\* lines 236-243: INSERT, commit, lastrowid
Insert(i) ==
    /\ At(i, "insert")
    /\ LET id == NextRowId
           me == requests[i]
       IN  /\ complaints' = (id :> NewRow(me.category, me.title, me.body, me.ts, me.confidence))
                            @@ complaints
           /\ sqlite_sequence' = id
           /\ resolved_log' = (id :> <<>>) @@ resolved_log
           /\ Advance(i, [me EXCEPT !.pc = "notify", !.complaint_id = id])
    /\ History
    /\ UNCHANGED <<now, ENABLE_SMTP, call, updates>>

\* send_anonymous_email: the values it can return
send_anonymous_email(category) ==
    IF category \notin DOMAIN CATEGORY_HEAD_EMAIL
    THEN {FALSE}
    ELSE IF ~ENABLE_SMTP THEN {TRUE} ELSE {TRUE, FALSE}

\* a failed notification that takes the complaint back out
MarkNotified_Rollback(id, sent) ==
    IF sent
    THEN [i \in DOMAIN complaints |->
            IF i = id THEN [complaints[i] EXCEPT !.anonymous_sent = 1] ELSE complaints[i]]
    ELSE [i \in DOMAIN complaints \ {id} |-> complaints[i]]

\* UPDATE complaints SET anonymous_sent = ? WHERE id = ?
MarkNotified(id, sent) ==
    [i \in DOMAIN complaints |->
        IF i = id
        THEN [complaints[i] EXCEPT !.anonymous_sent = IF sent THEN 1 ELSE 0]
        ELSE complaints[i]]

\* lines 245-248: the notification, the anonymous_sent flag, the response
Notify(i) ==
    /\ At(i, "notify")
    /\ \E sent \in send_anonymous_email(requests[i].category) :
          LET me == [requests[i] EXCEPT !.sent = sent]
          IN  /\ complaints' = MarkNotified(me.complaint_id, sent)
              /\ Advance(i, Return(me, [OkResponse EXCEPT !.id = me.complaint_id,
                                                          !.category = me.category,
                                                          !.confidence = me.confidence]))
    /\ History
    /\ UNCHANGED <<sqlite_sequence, now, ENABLE_SMTP, call, resolved_log, updates>>

(***************************************************************************)
(* update_status                                                           *)
(***************************************************************************)
\* a status check that lets any submitted value through
ValidStatuses_AnyValue ==
    {"New", "In Progress", "Resolved", "Bogus"}

ValidStatuses ==
    {"New", "In Progress", "Resolved"}

\* lines 266-274: the admin check, int(id), the status check, the clock
UpdateRequest(threads, is_admin, cid, new_status) ==
    /\ Free(threads)
    /\ is_admin
    /\ LET me == [Request("update_status") EXCEPT !.cid = cid, !.new_status = new_status]
       IN  IF new_status \notin ValidStatuses
           THEN /\ Begin(Return(me, ErrorResponse(400, "invalid status")))
                /\ UNCHANGED updates
           ELSE /\ updates < MaxUpdates
                /\ updates' = updates + 1
                /\ Begin([me EXCEPT !.pc = "update", !.ts = now_ts,
                                    !.before = IF cid \in DOMAIN complaints
                                               THEN <<complaints[cid].resolved_at>>
                                               ELSE <<>>])
    /\ UNCHANGED <<complaints, sqlite_sequence, now, ENABLE_SMTP, call,
                   was_resolved, resolved_log>>

\* a resolution that keeps the first resolved_at
UpdatedRow_KeepFirst(row, new_status, ts) ==
    IF new_status = "Resolved"
    THEN [row EXCEPT !.status = new_status, !.updated_at = ts,
                     !.resolved_at = IF row.resolved_at = NULL THEN ts ELSE row.resolved_at]
    ELSE [row EXCEPT !.status = new_status, !.updated_at = ts]

\* a reopening that clears resolved_at
UpdatedRow_ClearOnReopen(row, new_status, ts) ==
    IF new_status = "Resolved"
    THEN [row EXCEPT !.status = new_status, !.updated_at = ts, !.resolved_at = ts]
    ELSE [row EXCEPT !.status = new_status, !.updated_at = ts, !.resolved_at = NULL]

\* an update that gives way to a row written with a later clock reading
UpdatedRow_NewestWins(row, new_status, ts) ==
    IF row.updated_at > ts
    THEN row
    ELSE IF new_status = "Resolved"
    THEN [row EXCEPT !.status = new_status, !.updated_at = ts, !.resolved_at = ts]
    ELSE [row EXCEPT !.status = new_status, !.updated_at = ts]

\* the SET clause of the two UPDATE statements
UpdatedRow(row, new_status, ts) ==
    IF new_status = "Resolved"
    THEN [row EXCEPT !.status = new_status, !.updated_at = ts, !.resolved_at = ts]
    ELSE [row EXCEPT !.status = new_status, !.updated_at = ts]

\* UPDATE complaints SET ... WHERE id=?
UpdateWhereId(cid, new_status, ts) ==
    [id \in DOMAIN complaints |->
        IF id = cid THEN UpdatedRow(complaints[id], new_status, ts) ELSE complaints[id]]

\* lines 275-280: the UPDATE, the commit and the response
Update(i) ==
    /\ At(i, "update")
    /\ LET me == requests[i]
       IN  /\ complaints' = UpdateWhereId(me.cid, me.new_status, me.ts)
           /\ resolved_log' = [id \in DOMAIN resolved_log |->
                                  IF id = me.cid /\ me.new_status = "Resolved"
                                  THEN Append(resolved_log[id], me.ts)
                                  ELSE resolved_log[id]]
           /\ Advance(i, Return(me, OkResponse))
    /\ History
    /\ UNCHANGED <<sqlite_sequence, now, ENABLE_SMTP, call, updates>>

(***************************************************************************)
(* The read-only routes.                                                   *)
(***************************************************************************)
ListResponse(q) ==
    [OkResponse EXCEPT !.complaints = [i \in DOMAIN q |-> JsonRow(q[i])]]

\* /api/complaint/list
list_complaints(threads, is_admin) ==
    /\ Free(threads)
    /\ is_admin
    /\ \E q \in SelectOrderByTimestampDesc : Begin(Return(Request("list"), ListResponse(q)))
    /\ UNCHANGED <<complaints, sqlite_sequence, now, ENABLE_SMTP, call,
                   was_resolved, resolved_log, updates>>

\* /api/mycomplaints
my_complaints(threads, logged_in) ==
    /\ Free(threads)
    /\ logged_in
    /\ \E q \in SelectOrderByTimestampDesc :
          Begin(Return(Request("mycomplaints"), ListResponse(q)))
    /\ UNCHANGED <<complaints, sqlite_sequence, now, ENABLE_SMTP, call,
                   was_resolved, resolved_log, updates>>

\* lines 285-292: the admin check and the status query
StatsRequest(threads, is_admin) ==
    /\ Free(threads)
    /\ is_admin
    /\ Begin([Request("stats") EXCEPT !.pc = "stats_category", !.status_counts = StatusCounts])
    /\ UNCHANGED <<complaints, sqlite_sequence, now, ENABLE_SMTP, call,
                   was_resolved, resolved_log, updates>>

\* lines 293-296: the category query
StatsCategory(i) ==
    /\ At(i, "stats_category")
    /\ Advance(i, [requests[i] EXCEPT !.pc = "stats_speed", !.cat_counts = CategoryCounts])
    /\ UNCHANGED <<complaints, sqlite_sequence, now, ENABLE_SMTP, call,
                   was_resolved, resolved_log, updates>>

\* lines 297-326: the speed query, the ranking and the response
StatsSpeed(i) ==
    /\ At(i, "stats_speed")
    /\ \E q \in Orderings(ResolvedCategories) :
          Advance(i, Return(requests[i],
                            [OkResponse EXCEPT !.status_counts = requests[i].status_counts,
                                               !.category_counts = requests[i].cat_counts,
                                               !.speed_stats = SpeedStats(q)]))
    /\ UNCHANGED <<complaints, sqlite_sequence, now, ENABLE_SMTP, call,
                   was_resolved, resolved_log, updates>>

\* lines 342-348: the session check and the status query
MyDashboardRequest(threads, logged_in) ==
    /\ Free(threads)
    /\ logged_in
    /\ Begin([Request("mydashboard") EXCEPT !.pc = "mydashboard_category",
                                            !.status_counts = StatusCounts])
    /\ UNCHANGED <<complaints, sqlite_sequence, now, ENABLE_SMTP, call,
                   was_resolved, resolved_log, updates>>

\* lines 349-356: the category query and the response
MyDashboardCategory(i) ==
    /\ At(i, "mydashboard_category")
    /\ Advance(i, Return(requests[i],
                         [OkResponse EXCEPT !.status_counts = requests[i].status_counts,
                                            !.category_counts = CategoryCounts]))
    /\ UNCHANGED <<complaints, sqlite_sequence, now, ENABLE_SMTP, call,
                   was_resolved, resolved_log, updates>>

(***************************************************************************)
(* The server, one request at a time: every route.                         *)
(***************************************************************************)
Next ==
    \/ Tick
    \/ Deliver
    \/ \E logged_in \in BOOLEAN, t \in Titles, b \in Bodies : CreateRequest(1, logged_in, t, b)
    \/ Insert(1)
    \/ Notify(1)
    \/ \E is_admin \in BOOLEAN, cid \in FormIds, s \in StatusInputs :
          UpdateRequest(1, is_admin, cid, s)
    \/ Update(1)
    \/ \E is_admin \in BOOLEAN : list_complaints(1, is_admin)
    \/ \E logged_in \in BOOLEAN : my_complaints(1, logged_in)
    \/ \E is_admin \in BOOLEAN : StatsRequest(1, is_admin)
    \/ StatsCategory(1)
    \/ StatsSpeed(1)
    \/ \E logged_in \in BOOLEAN : MyDashboardRequest(1, logged_in)
    \/ MyDashboardCategory(1)

Spec ==
    Init /\ [][Next]_vars

(***************************************************************************)
(* The threaded server (app.run serves each request in its own thread):    *)
(* the routes that write, NumWorkers requests at a time.                   *)
(***************************************************************************)
NextThreaded ==
    \/ Tick
    \/ Deliver
    \/ \E logged_in \in BOOLEAN, t \in Titles, b \in Bodies :
          CreateRequest(NumWorkers, logged_in, t, b)
    \/ \E i \in 1..NumWorkers : Insert(i)
    \/ \E i \in 1..NumWorkers : Notify(i)
    \/ \E is_admin \in BOOLEAN, cid \in FormIds, s \in StatusInputs :
          UpdateRequest(NumWorkers, is_admin, cid, s)
    \/ \E i \in 1..NumWorkers : Update(i)

SpecThreaded ==
    Init /\ [][NextThreaded]_vars

(***************************************************************************)
(* classify_complaint called on its own, on the texts made of at most      *)
(* MaxWords different words of Vocabulary.                                 *)
(***************************************************************************)
MaxWords == 5

Vocabulary ==
    << <<"t", "h", "r", "e", "a", "t">>,
       <<"W", "i", "F", "i">>,
       <<"s", "e", "r", "v", "e", "r">>,
       <<"l", "o", "g", "i", "n">>,
       <<"s", "l", "o", "w">>,
       <<"f", "a">>,
       <<"x", "y", "z">> >>

\* the words of Vocabulary at the places S, in the order of Vocabulary,
\* separated by single spaces
RECURSIVE JoinWords(_)
JoinWords(S) ==
    LET first == CHOOSE i \in S : \A j \in S : i <= j
    IN  IF S = {first}
        THEN Vocabulary[first]
        ELSE Vocabulary[first] \o <<" ">> \o JoinWords(S \ {first})

Texts ==
    {JoinWords(S) : S \in {T \in SUBSET DOMAIN Vocabulary :
                              Cardinality(T) \in 1..MaxWords}}

ClassifyCall(text) ==
    [NoCall EXCEPT !.fn = "classify_complaint", !.pc = "called", !.text = text]

InitClassify ==
    /\ complaints = <<>>
    /\ sqlite_sequence = 0
    /\ now = 0
    /\ ENABLE_SMTP = FALSE
    /\ requests = <<>>
    /\ response = NoRequest
    /\ was_resolved = {}
    /\ resolved_log = <<>>
    /\ updates = 0
    /\ call \in {ClassifyCall(text) : text \in Texts}

\* return best_cat, round(confidence, 3)
ClassifyReturn ==
    /\ call.fn = "classify_complaint"
    /\ call.pc = "called"
    /\ LET result == classify_complaint(call.text)
       IN  call' = [call EXCEPT !.pc = "returned", !.category = result[1],
                                !.confidence = result[2]]
    /\ UNCHANGED <<complaints, sqlite_sequence, now, ENABLE_SMTP, requests, response,
                   was_resolved, resolved_log, updates>>

NextClassify ==
    ClassifyReturn

SpecClassify ==
    InitClassify /\ [][NextClassify]_vars

(***************************************************************************)
(* pretty called on its own, on durations of at most MaxDays days and some *)
(* hours, minutes and seconds, on a negative duration and on None (NULL).  *)
(***************************************************************************)
MaxDays == 1

Durations ==
    {d * 86400 + h * 3600 + m * 60 + x :
        d \in 0..MaxDays, h \in {0, 1, 23}, m \in {0, 1, 30, 59}, x \in {0, 45, 59}}
    \cup {NULL, 0 - 86400}

PrettyCall(sec) ==
    [NoCall EXCEPT !.fn = "pretty", !.pc = "called", !.sec = sec]

InitPretty ==
    /\ complaints = <<>>
    /\ sqlite_sequence = 0
    /\ now = 0
    /\ ENABLE_SMTP = FALSE
    /\ requests = <<>>
    /\ response = NoRequest
    /\ was_resolved = {}
    /\ resolved_log = <<>>
    /\ updates = 0
    /\ call \in {PrettyCall(sec) : sec \in Durations}

PrettyReturn ==
    /\ call.fn = "pretty"
    /\ call.pc = "called"
    /\ call' = [call EXCEPT !.pc = "returned", !.readable = pretty(call.sec)]
    /\ UNCHANGED <<complaints, sqlite_sequence, now, ENABLE_SMTP, requests, response,
                   was_resolved, resolved_log, updates>>

NextPretty ==
    PrettyReturn

SpecPretty ==
    InitPretty /\ [][NextPretty]_vars

(***************************************************************************)
(* Properties.                                                             *)
(***************************************************************************)
\* the request of route r has just finished; its response is on the wire
Finished(r) ==
    /\ response.pc = "done"
    /\ response.route = r

\* the step puts the response of a request of route r on the wire
Finishes(r) ==
    /\ response' # response
    /\ response'.pc = "done"
    /\ response'.route = r

AllowedStatusValues ==
    {"New", "In Progress", "Resolved"}

CategorySet ==
    {"Infrastructure", "Academic", "Harassment", "Facilities", "IT/Network", "Other"}

Last(seq) ==
    seq[Len(seq)]

\* C1: a status update with an allowed status for an id that is not in the
\* table fails: it reports NotFound, not success.
C1_UnknownIdFails ==
    (/\ Finished("update_status")
     /\ response.new_status \in AllowedStatusValues
     /\ response.cid \notin DOMAIN complaints)
    => (response.resp.ok = FALSE /\ response.resp.code = 404)

\* the half of C1 the code keeps: the update of an unknown id changes no row
C1_UnknownIdChangesNothing ==
    [][(Finishes("update_status") /\ response'.cid \notin DOMAIN complaints)
       => complaints' = complaints]_vars

\* C2: a status update whose status is not one of the three allowed values is
\* never accepted: it fails with the validation error (400, invalid status)
\* and the step that rejects it leaves every row as it was.
C2_InvalidStatusRejected ==
    /\ [](\A i \in DOMAIN requests :
             requests[i].route = "update_status"
                => requests[i].new_status \in AllowedStatusValues)
    /\ []((Finished("update_status") /\ response.new_status \notin AllowedStatusValues)
             => (/\ response.resp.ok = FALSE
                 /\ response.resp.code = 400
                 /\ response.resp.error = "invalid status"))
    /\ [][(Finishes("update_status") /\ response'.new_status \notin AllowedStatusValues)
             => complaints' = complaints]_vars

C2_Witness ==
    /\ Finished("update_status")
    /\ response.new_status = "Bogus"
    /\ response.resp.code = 400
    /\ response.cid \in DOMAIN complaints
    /\ complaints[response.cid].resolved_at # NULL

\* C3: when an update to Resolved of an existing row has succeeded, the row's
\* resolved_at and updated_at both are the clock reading of that update, also
\* when the row had been resolved before; and a row in status Resolved always
\* has resolved_at = updated_at.
C3_ResolveStampsNow ==
    /\ (/\ Finished("update_status")
        /\ response.resp.ok
        /\ response.new_status = "Resolved"
        /\ response.cid \in DOMAIN complaints)
       => (/\ complaints[response.cid].status = "Resolved"
           /\ complaints[response.cid].resolved_at = response.ts
           /\ complaints[response.cid].updated_at = response.ts
           /\ response.ts <= now)
    /\ \A id \in DOMAIN complaints :
          /\ complaints[id].status = "Resolved"
                => complaints[id].resolved_at = complaints[id].updated_at
          /\ resolved_log[id] # <<>>
                => complaints[id].resolved_at = Last(resolved_log[id])

\* a second resolution, later than the first, has just succeeded
C3_Witness ==
    /\ Finished("update_status")
    /\ response.resp.ok
    /\ response.new_status = "Resolved"
    /\ response.cid \in DOMAIN complaints
    /\ Len(resolved_log[response.cid]) = 2
    /\ resolved_log[response.cid][1] < response.ts
    /\ complaints[response.cid].resolved_at = response.ts

\* C4: a row has a resolved_at exactly if it has been in status Resolved.
C4_ResolvedAtIffEverResolved ==
    \A id \in DOMAIN complaints :
        (complaints[id].resolved_at # NULL) <=> (id \in was_resolved)

\* a row that was resolved and reopened, next to a row never resolved
C4_Witness ==
    \E id, other \in DOMAIN complaints :
        /\ id \in was_resolved
        /\ complaints[id].status = "New"
        /\ complaints[id].resolved_at # NULL
        /\ other \notin was_resolved
        /\ complaints[other].resolved_at = NULL

\* C5: a row appears in the table with status New, created_at = updated_at,
\* no resolved_at and notified false, and no row of any reachable state lacks
\* a field: category, body, status, both timestamps, the confidence and the
\* notified flag always hold a value of their kind.
C5_CreatedWhole ==
    /\ [](\A id \in DOMAIN complaints :
             /\ complaints[id].category \in CategorySet
             /\ complaints[id].body # <<>>
             /\ complaints[id].status \in AllowedStatusValues
             /\ complaints[id].timestamp \in 0..MaxTime
             /\ complaints[id].updated_at \in 0..MaxTime
             /\ complaints[id].predicted_confidence \in 0..1000
             /\ complaints[id].anonymous_sent \in {0, 1})
    /\ [][\A id \in (DOMAIN complaints') \ (DOMAIN complaints) :
             /\ complaints'[id].status = "New"
             /\ complaints'[id].timestamp = complaints'[id].updated_at
             /\ complaints'[id].resolved_at = NULL
             /\ complaints'[id].anonymous_sent = 0]_vars

\* a row is in the table while its request has not yet notified anyone,
\* and another request is being served
C5_Witness ==
    \E i, j \in DOMAIN requests :
        /\ i # j
        /\ requests[i].pc = "notify"
        /\ requests[i].complaint_id \in DOMAIN complaints
        /\ complaints[requests[i].complaint_id].status = "New"
        /\ complaints[requests[i].complaint_id].anonymous_sent = 0

\* C6: a listing holds the rows by created_at descending and, among rows of
\* equal created_at, by id descending.
C6_ListNewestFirst ==
    (Finished("list") \/ Finished("mycomplaints"))
    => LET rows == response.resp.complaints
       IN  \A i, j \in DOMAIN rows :
              i < j => \/ rows[i].timestamp > rows[j].timestamp
                       \/ /\ rows[i].timestamp = rows[j].timestamp
                          /\ rows[i].id > rows[j].id

\* C7: every INSERT adds exactly one row under an id larger than every id
\* handed out before; the rows already there keep their id and content; and
\* every creation that passed the body check answers ok with the id of the row
\* that holds its own complaint.
C7_IdsDistinctIncreasing ==
    /\ [][/\ \A id \in (DOMAIN complaints') \ (DOMAIN complaints) :
                /\ id > sqlite_sequence
                /\ \A old \in DOMAIN complaints : id > old
          /\ sqlite_sequence' # sqlite_sequence
                => Cardinality(DOMAIN complaints') = Cardinality(DOMAIN complaints) + 1
          /\ \A id \in DOMAIN complaints :
                /\ id \in DOMAIN complaints'
                /\ complaints'[id].body = complaints[id].body
                /\ complaints'[id].timestamp = complaints[id].timestamp
                /\ complaints'[id].category = complaints[id].category]_vars
    /\ []((Finished("create") /\ response.body # <<>>)
             => (/\ response.resp.ok
                 /\ response.resp.id \in DOMAIN complaints
                 /\ complaints[response.resp.id].body = response.body
                 /\ complaints[response.resp.id].timestamp = response.ts))
    /\ [](\A i, j \in DOMAIN requests :
             (/\ i # j
              /\ requests[i].pc = "notify"
              /\ requests[j].pc = "notify")
                => requests[i].complaint_id # requests[j].complaint_id)

\* two creations overlap, and the one that arrived second committed first
C7_Witness ==
    /\ Len(requests) = 2
    /\ requests[1].pc = "notify"
    /\ requests[2].pc = "notify"
    /\ requests[1].complaint_id = 2
    /\ requests[2].complaint_id = 1

\* C8: when the notification of a new complaint fails, the creation answers ok
\* with the id, the category and the confidence, and the step changes nothing
\* in the table but the complaint's notified flag, which is false.
C8_NotificationFailureKept ==
    [][(/\ Finishes("create")
        /\ response'.body # <<>>
        /\ ~response'.sent)
       => LET id == response'.resp.id
          IN  /\ response'.resp.ok
              /\ response'.resp.code = 200
              /\ id \in DOMAIN complaints
              /\ DOMAIN complaints' = DOMAIN complaints
              /\ response'.resp.category = complaints[id].category
              /\ response'.resp.confidence = complaints[id].predicted_confidence
              /\ complaints'[id].anonymous_sent = 0
              /\ \A k \in DOMAIN complaints :
                    complaints'[k] = [complaints[k] EXCEPT
                                         !.anonymous_sent = complaints'[k].anonymous_sent]
              /\ \A k \in DOMAIN complaints \ {id} : complaints'[k] = complaints[k]]_vars

C8_Witness ==
    /\ Finished("create")
    /\ response.body # <<>>
    /\ ~response.sent
    /\ response.resp.ok
    /\ response.resp.id \in DOMAIN complaints
    /\ complaints[response.resp.id].anonymous_sent = 0

\* C9: the ranking of a statistics response has one entry for each category
\* with a row whose status is Resolved now, no other entry, and each entry's
\* resolved_count is the number of that category's rows in status Resolved.
C9_RankingCountsResolvedNow ==
    Finished("stats")
    => LET ranking == response.resp.speed_stats
           resolved_now == {id \in DOMAIN complaints : complaints[id].status = "Resolved"}
           cats == {complaints[id].category : id \in resolved_now}
       IN  /\ Len(ranking) = Cardinality(cats)
           /\ {ranking[i].category : i \in DOMAIN ranking} = cats
           /\ \A i \in DOMAIN ranking :
                 ranking[i].resolved_count =
                    Cardinality({id \in resolved_now :
                                    complaints[id].category = ranking[i].category})

\* statistics over a row that is counted and a row that was resolved and
\* reopened
C9_Witness ==
    /\ Finished("stats")
    /\ \E id \in DOMAIN complaints :
          /\ complaints[id].status # "Resolved"
          /\ complaints[id].resolved_at # NULL
          /\ \A i \in DOMAIN response.resp.speed_stats :
                response.resp.speed_stats[i].category # complaints[id].category

\* C10: the ranking of a statistics response is ascending by avg_seconds,
\* entries with an average of 0 seconds included.
C10_RankingAscending ==
    Finished("stats")
    => LET ranking == response.resp.speed_stats
       IN  \A i, j \in DOMAIN ranking :
              i < j => ranking[i].avg_seconds <= ranking[j].avg_seconds

\* classify_complaint has returned from the call made on its own
Classified ==
    /\ call.fn = "classify_complaint"
    /\ call.pc = "returned"

HighSeverityTerms ==
    { <<"h", "a", "r", "a", "s", "s">>,
      <<"b", "u", "l", "l", "y">>,
      <<"s", "e", "x", "u", "a", "l">>,
      <<"a", "s", "s", "a", "u", "l", "t">>,
      <<"t", "h", "r", "e", "a", "t">> }

\* C11: a text that contains one of the high-severity terms (harass, bully,
\* sexual, assault, threat) as a substring is classified Harassment, whatever
\* keywords of other categories it also contains and however many of them.
C11_SevereTermWins ==
    (/\ Classified
     /\ \E term \in HighSeverityTerms : Contains(call.text, term))
    => call.category = "Harassment"

\* the tokens of s delimited by whitespace
RECURSIVE WhitespaceTokens(_, _, _)
WhitespaceTokens(s, cur, acc) ==
    IF s = <<>>
    THEN IF cur = <<>> THEN acc ELSE Append(acc, cur)
    ELSE IF Head(s) \in Whitespace
         THEN WhitespaceTokens(Tail(s), <<>>, IF cur = <<>> THEN acc ELSE Append(acc, cur))
         ELSE WhitespaceTokens(Tail(s), Append(cur, Head(s)), acc)

KeywordPhrases ==
    UNION {{CATEGORY_KEYWORDS[c][i] : i \in DOMAIN CATEGORY_KEYWORDS[c]} :
              c \in DOMAIN CATEGORY_KEYWORDS}

\* the fuzzy rule as stated: the lengths differ by at most 2 and the first 3
\* characters of the keyword equal the first 3 characters of the token
FuzzyRule(token, k) ==
    /\ Abs(Len(token) - Len(k)) <= 2
    /\ Prefix(k, 3) = Prefix(token, 3)

NoMatchOfAnyKind(text) ==
    LET s == Lower(text)
        tokens == WhitespaceTokens(s, <<>>, <<>>)
    IN  /\ \A k \in KeywordPhrases : ~Contains(s, k)
        /\ \A i \in DOMAIN tokens : \A k \in KeywordPhrases : ~FuzzyRule(tokens[i], k)

\* C12: a non-empty text in which no keyword phrase occurs as a
\* case-insensitive substring and no whitespace-delimited token matches a
\* keyword phrase under the fuzzy rule is classified Other with confidence
\* 0.0, texts made of tokens shorter than 3 characters included.
C12_NoMatchIsOther ==
    (/\ Classified
     /\ call.text # <<>>
     /\ NoMatchOfAnyKind(call.text))
    => (/\ call.category = "Other"
        /\ call.confidence = 0)

\* pretty has returned from the call made on its own
Formatted ==
    /\ call.fn = "pretty"
    /\ call.pc = "returned"

\* C13: the duration formatter returns "-" for s <= 0 and for an undefined
\* s; otherwise "{days}d {hours}h" when s >= 86400, else "{hours}h
\* {minutes}m" when s >= 3600, else "{minutes}m", with days = s div 86400,
\* hours = (s mod 86400) div 3600 and minutes = (s mod 3600) div 60, floor
\* divisions with no rounding.
C13_PrettyFloors ==
    Formatted =>
        LET s == call.sec
            days == s \div 86400
            hours == (s % 86400) \div 3600
            minutes == (s % 3600) \div 60
        IN  call.readable =
                IF s = NULL \/ s <= 0 THEN "-"
                ELSE IF s >= 86400 THEN ToString(days) \o "d " \o ToString(hours) \o "h"
                ELSE IF s >= 3600 THEN ToString(hours) \o "h " \o ToString(minutes) \o "m"
                ELSE ToString(minutes) \o "m"

\* a duration of more than a day has been formatted: 90000 gives "1d 1h"
C13_Witness ==
    /\ Formatted
    /\ call.sec = 90000
    /\ call.readable = "1d 1h"

\* the sum of the values of the mapping f
RECURSIVE SumOf(_)
SumOf(f) ==
    IF DOMAIN f = {}
    THEN 0
    ELSE LET k == CHOOSE x \in DOMAIN f : TRUE
         IN  f[k] + SumOf([x \in DOMAIN f \ {k} |-> f[x]])

\* the mapping counts is the count of the rows by the column col: its keys
\* are the values held by at least one row, each with its number of rows
CountsBy(counts, col(_)) ==
    LET rows == DOMAIN complaints
    IN  /\ DOMAIN counts = {col(complaints[id]) : id \in rows}
        /\ \A v \in DOMAIN counts :
              /\ counts[v] = Cardinality({id \in rows : col(complaints[id]) = v})
              /\ counts[v] > 0
        /\ SumOf(counts) = Cardinality(rows)

\* C14: after any sequence of create and update_status operations, the
\* status counts of a statistics response map exactly the statuses held by
\* at least one record to their number of records, and the category counts
\* do the same for the categories; a status or category with no record has
\* no key, and the counts of each view sum to the number of records.
C14_CountsExact ==
    (Finished("stats") \/ Finished("mydashboard"))
    => /\ CountsBy(response.resp.status_counts, LAMBDA row : row.status)
       /\ CountsBy(response.resp.category_counts, LAMBDA row : row.category)

\* statistics over two records in different statuses, one of them moved by
\* an update, with at least one allowed status held by no record
C14_Witness ==
    /\ Finished("stats")
    /\ Cardinality(DOMAIN complaints) = 2
    /\ updates > 0
    /\ Cardinality(DOMAIN response.resp.status_counts) = 2
    /\ \E s \in AllowedStatusValues : s \notin DOMAIN response.resp.status_counts

CategoryOrder ==
    <<"Infrastructure", "Academic", "Harassment", "Facilities", "IT/Network", "Other">>

\* the place of category c in the enumeration order
Place(c) ==
    CHOOSE i \in DOMAIN CategoryOrder : CategoryOrder[i] = c

\* C15: two categories of the resolution-speed ranking with equal
\* avg_seconds appear in category enumeration order (Infrastructure,
\* Academic, Harassment, Facilities, IT/Network, Other), whatever the order
\* in which the database returns the grouped rows.
C15_TiesInEnumerationOrder ==
    Finished("stats")
    => LET ranking == response.resp.speed_stats
       IN  \A i, j \in DOMAIN ranking :
              (i < j /\ ranking[i].avg_seconds = ranking[j].avg_seconds)
              => Place(ranking[i].category) < Place(ranking[j].category)

\* C16: when two status updates race on the same record, the update that
\* lands last alone determines the final status, updated_at and resolved_at:
\* the three fields are those it would produce by itself on the record as it
\* was when it began, with no field written by the earlier update.
C16_LastWriteWinsAlone ==
    (/\ Finished("update_status")
     /\ response.resp.ok
     /\ response.cid \in DOMAIN complaints
     /\ response.before # <<>>)
    => LET row == complaints[response.cid]
       IN  /\ row.status = response.new_status
           /\ row.updated_at = response.ts
           /\ row.resolved_at = IF response.new_status = "Resolved"
                                THEN response.ts
                                ELSE response.before[1]

\* C16, amended: the update that lands last determines the final status and
\* updated_at, and the final resolved_at when its status is Resolved; when
\* its status is not Resolved, resolved_at keeps the value the record held
\* just before that update landed, which the earlier update of a race may
\* have written.  No other record changes.
C16_LastWriteOnTop ==
    [][(/\ Finishes("update_status")
        /\ response'.resp.ok
        /\ response'.cid \in DOMAIN complaints)
       => LET cid == response'.cid
          IN  /\ DOMAIN complaints' = DOMAIN complaints
              /\ complaints'[cid].status = response'.new_status
              /\ complaints'[cid].updated_at = response'.ts
              /\ complaints'[cid].resolved_at = IF response'.new_status = "Resolved"
                                                THEN response'.ts
                                                ELSE complaints[cid].resolved_at
              /\ \A id \in DOMAIN complaints \ {cid} : complaints'[id] = complaints[id]]_vars

\* two updates of one record have raced: the one that has just landed began
\* when the record had no resolved_at, is not a resolution, and finds the
\* resolved_at written by the update that landed before it
C16_Witness ==
    /\ Finished("update_status")
    /\ response.resp.ok
    /\ response.cid \in DOMAIN complaints
    /\ response.before = <<NULL>>
    /\ response.new_status # "Resolved"
    /\ complaints[response.cid].status = response.new_status
    /\ complaints[response.cid].resolved_at # NULL

============================================================================
